---- MODULE Spec2Model ----
(***************************************************************************)
(* Model of the RIFT minimal tokenizer (RIFT_MVP/battle_tested): the       *)
(* MinimalParser and BattleTestedParser implementations of the Parser      *)
(* trait, the token classifier and the recovery advisor.                   *)
(*                                                                         *)
(* A Rust &str / String is a sequence of characters; a character is a      *)
(* one-element TLA+ string, except the Roman numeral U+2167, which is      *)
(* written "U+2167".                                                       *)
(***************************************************************************)
EXTENDS Integers, Sequences, FiniteSets

VARIABLES input,       \* the harness's input string (main.rs `input`)
          error,       \* the ParserError the harness hands to recover_from_error
          self_input,  \* BattleTestedParser.input
          op,          \* the operation that ran last
          ret,         \* what it returned
          first        \* history: one remembered earlier call of parse

vars == <<input, error, self_input, op, ret, first>>

----------------------------------------------------------------------------
(* Bounds of the model *)

MaxLen == 3          \* longest enumerated input string
MaxLine == 3         \* largest line number carried by an enumerated SyntaxError
MaxStored == 2       \* longest enumerated stored input of a BattleTestedParser
MaxArg == 1          \* longest enumerated argument handed to BattleTestedParser::parse
MaxDetLen == 3       \* longest enumerated input of the repeated-call specification

----------------------------------------------------------------------------
(* Characters and the character classes of the Rust standard library *)

Letters == {"a", "b", "d", "e", "f", "g", "h", "i", "l", "m", "n", "o",
            "p", "r", "s", "t", "u", "v", "w", "x"}
Digits == {"0", "1", "2", "4", "5"}
LetterNumber == "U+2167"     \* ROMAN NUMERAL EIGHT, category Nl
Symbols == {"+", "-", "*", "/", "!", ">", "{", "}"}
WhiteSpace == {" ", "\t", "\n", "\r"}

\* char::is_alphabetic: the Unicode Alphabetic property (letters and Nl)
is_alphabetic(c) == c \in Letters \cup {LetterNumber}

\* char::is_numeric: the Unicode categories Nd, Nl and No
is_numeric(c) == c \in Digits \cup {LetterNumber}

\* char::is_whitespace: the Unicode White_Space property
is_whitespace(c) == c \in WhiteSpace

\* token.chars().all(char::is_alphabetic)
all_alphabetic(s) == \A k \in 1..Len(s) : is_alphabetic(s[k])

\* token.chars().all(char::is_numeric)
all_numeric(s) == \A k \in 1..Len(s) : is_numeric(s[k])

----------------------------------------------------------------------------
(* Token kinds, results, errors and recovery actions *)

TokenType == {"Identifier", "Literal", "Operator", "Keyword", "Punctuation"}

Token(kind, value, line, column) ==
    [kind |-> kind, value |-> value, line |-> line, column |-> column]

Ok(tokens) == [tag |-> "Ok", tokens |-> tokens]

Err(e) == [tag |-> "Err", error |-> e]

SyntaxError(line, column, message) ==
    [variant |-> "SyntaxError", line |-> line, column |-> column, message |-> message]

UnexpectedToken(text) ==
    [variant |-> "UnexpectedToken", line |-> 0, column |-> 0, message |-> text]

\* RecoveryAction, wrapped in Option
None == [some |-> FALSE, action |-> "None", line |-> 0]

SomeSkip == [some |-> TRUE, action |-> "Skip", line |-> 0]

SomeSynchronize(line) == [some |-> TRUE, action |-> "Synchronize", line |-> line]

----------------------------------------------------------------------------
(* str::lines and str::split_whitespace *)

\* position of the first "\n" of s, or 0
RECURSIVE find_newline(_, _)
find_newline(s, k) ==
    IF k > Len(s) THEN 0
    ELSE IF s[k] = "\n" THEN k
    ELSE find_newline(s, k + 1)

\* strip_suffix('\r') of a line that ended in "\n"
strip_cr(line) ==
    IF Len(line) > 0 /\ line[Len(line)] = "\r"
    THEN SubSeq(line, 1, Len(line) - 1)
    ELSE line

\* lines, were blank lines dropped instead of yielded as empty lines
RECURSIVE lines_dropping_blank(_)
lines_dropping_blank(s) ==
    IF s = <<>> THEN <<>>
    ELSE LET k == find_newline(s, 1)
             line == IF k = 0 THEN s ELSE strip_cr(SubSeq(s, 1, k - 1))
             rest == IF k = 0 THEN <<>> ELSE SubSeq(s, k + 1, Len(s))
         IN  (IF line = <<>> THEN <<>> ELSE <<line>>) \o lines_dropping_blank(rest)

\* str::lines: split at "\n" or "\r\n"; a final line needs no terminator and
\* an empty final line is not produced
RECURSIVE lines(_)
lines(s) ==
    IF s = <<>> THEN <<>>
    ELSE LET k == find_newline(s, 1)
         IN  IF k = 0 THEN <<s>>
             ELSE <<strip_cr(SubSeq(s, 1, k - 1))>> \o lines(SubSeq(s, k + 1, Len(s)))

\* split_whitespace, were it str::split at every white-space character, which
\* yields an empty word between two adjacent separators
RECURSIVE split_each_whitespace(_, _)
split_each_whitespace(s, k) ==
    IF k > Len(s) THEN <<s>>
    ELSE IF s[k] \in WhiteSpace
         THEN <<SubSeq(s, 1, k - 1)>> \o split_each_whitespace(SubSeq(s, k + 1, Len(s)), 1)
         ELSE split_each_whitespace(s, k + 1)

split_without_collapsing(s) == IF s = <<>> THEN <<>> ELSE split_each_whitespace(s, 1)

\* length of the longest prefix of s, from position k, free of white space
RECURSIVE word_end(_, _)
word_end(s, k) ==
    IF k > Len(s) \/ is_whitespace(s[k]) THEN k - 1
    ELSE word_end(s, k + 1)

\* str::split_whitespace: the non-empty maximal runs of non-white-space
RECURSIVE split_whitespace(_)
split_whitespace(s) ==
    IF s = <<>> THEN <<>>
    ELSE IF is_whitespace(s[1]) THEN split_whitespace(Tail(s))
    ELSE LET e == word_end(s, 1)
         IN  <<SubSeq(s, 1, e)>> \o split_whitespace(SubSeq(s, e + 1, Len(s)))

----------------------------------------------------------------------------
(* MinimalParser *)

OperatorWords == {<<"+">>, <<"-">>, <<"*">>, <<"/">>}

KeywordWords == {<<"i", "f">>, <<"e", "l", "s", "e">>, <<"w", "h", "i", "l", "e">>}

\* classify_token with the all-numeric rule tried before the all-alphabetic one
classify_numeric_first(token) ==
    IF token \in OperatorWords THEN "Operator"
    ELSE IF token \in KeywordWords THEN "Keyword"
    ELSE IF \A k \in 1..Len(token) : is_numeric(token[k]) THEN "Literal"
    ELSE IF \A k \in 1..Len(token) : is_alphabetic(token[k]) THEN "Identifier"
    ELSE "Punctuation"

\* classify_token with the all-alphabetic rule tried before the keyword rule
classify_alphabetic_first(token) ==
    IF token \in OperatorWords THEN "Operator"
    ELSE IF \A k \in 1..Len(token) : is_alphabetic(token[k]) THEN "Identifier"
    ELSE IF token \in KeywordWords THEN "Keyword"
    ELSE IF \A k \in 1..Len(token) : is_numeric(token[k]) THEN "Literal"
    ELSE "Punctuation"

\* classify_token with the empty word sent to the catch-all
classify_empty_as_punctuation(token) ==
    IF token = <<>> THEN "Punctuation"
    ELSE IF token \in OperatorWords THEN "Operator"
    ELSE IF token \in KeywordWords THEN "Keyword"
    ELSE IF \A k \in 1..Len(token) : is_alphabetic(token[k]) THEN "Identifier"
    ELSE IF \A k \in 1..Len(token) : is_numeric(token[k]) THEN "Literal"
    ELSE "Punctuation"

\* MinimalParser::classify_token
classify_token(token) ==
    IF token \in OperatorWords THEN "Operator"
    ELSE IF token \in KeywordWords THEN "Keyword"
    ELSE IF all_alphabetic(token) THEN "Identifier"
    ELSE IF all_numeric(token) THEN "Literal"
    ELSE "Punctuation"

\* the inner loop of MinimalParser::parse: the tokens of one line
line_tokens(line, line_num) ==
    LET words == split_whitespace(line)
    IN  [col \in 1..Len(words) |->
            Token(classify_token(words[col]), words[col], line_num + 1, col - 1)]

\* parse_lines, were each line's tokens put in front of the earlier ones
RECURSIVE parse_lines_prepending(_, _)
parse_lines_prepending(ls, line_num) ==
    IF line_num >= Len(ls) THEN <<>>
    ELSE parse_lines_prepending(ls, line_num + 1) \o line_tokens(ls[line_num + 1], line_num)

\* the outer loop of MinimalParser::parse, from the line with index line_num on
RECURSIVE parse_lines(_, _)
parse_lines(ls, line_num) ==
    IF line_num >= Len(ls) THEN <<>>
    ELSE line_tokens(ls[line_num + 1], line_num) \o parse_lines(ls, line_num + 1)

\* parse, were an input without tokens rejected
parse_rejecting_no_tokens(s) ==
    IF parse_lines(lines(s), 0) = <<>>
    THEN Err(SyntaxError(1, 0, <<>>))
    ELSE Ok(parse_lines(lines(s), 0))

\* parse, were the token buffer a field kept from one call to the next
parse_keeping_buffer(s) ==
    Ok((IF op = "parse" THEN ret.tokens ELSE <<>>) \o parse_lines(lines(s), 0))

\* MinimalParser::parse
MinimalParser_parse(s) == Ok(parse_lines(lines(s), 0))

\* recover_from_error, were the column handed to Synchronize
recover_with_column(e) ==
    IF e.variant = "SyntaxError" THEN SomeSynchronize(e.column)
    ELSE SomeSkip

\* MinimalParser::recover_from_error
recover_from_error(e) ==
    IF e.variant = "SyntaxError" THEN SomeSynchronize(e.line)
    ELSE SomeSkip

----------------------------------------------------------------------------
(* BattleTestedParser *)

\* BattleTestedParser::classify_token
BattleTested_classify_token(word) ==
    IF word \in OperatorWords THEN "Operator"
    ELSE IF word \in KeywordWords THEN "Keyword"
    ELSE IF all_alphabetic(word) THEN "Identifier"
    ELSE IF all_numeric(word) THEN "Literal"
    ELSE "Punctuation"

\* the inner loop of BattleTestedParser::parse
BattleTested_line_tokens(line, line_num) ==
    LET words == split_whitespace(line)
    IN  [col \in 1..Len(words) |->
            Token(BattleTested_classify_token(words[col]), words[col], line_num + 1, col - 1)]

\* the outer loop of BattleTestedParser::parse
RECURSIVE BattleTested_parse_lines(_, _)
BattleTested_parse_lines(ls, line_num) ==
    IF line_num >= Len(ls) THEN <<>>
    ELSE BattleTested_line_tokens(ls[line_num + 1], line_num)
            \o BattleTested_parse_lines(ls, line_num + 1)

\* BattleTestedParser::parse, were the parameter tokenized
BattleTested_parse_of_argument(self, _input) ==
    Ok(BattleTested_parse_lines(lines(_input), 0))

\* BattleTestedParser::parse: tokenizes self.input; the parameter is unused
BattleTested_parse(self, _input) == Ok(BattleTested_parse_lines(lines(self), 0))

\* BattleTestedParser::recover_from_error
BattleTested_recover_from_error(e) ==
    IF e.variant = "SyntaxError" THEN SomeSynchronize(e.line)
    ELSE SomeSkip

----------------------------------------------------------------------------
(* The harness: the inputs and errors it hands to the parsers *)

\* characters the enumerated inputs are built from
Sigma == {"i", "f", "1", LetterNumber, "+", " ", "\n", "\r"}

\* characters of the inputs of the repeated-call specification
DetSigma == {"i", " ", "\n"}

StringsOver(alphabet, n) == UNION {[1..k -> alphabet] : k \in 0..n}

\* the strings the tests and the main functions use
SampleInputs ==
    { <<"h", "e", "l", "l", "o", " ", "w", "o", "r", "l", "d">>,
      <<"t", "e", "s", "t", " ", "i", "n", "p", "u", "t">>,
      <<"i", "f", " ", "x", " ", "+", " ", "5", " ", ">", " ", "1", "0", " ", "{", " ",
        "d", "o", " ", "s", "o", "m", "e", "t", "h", "i", "n", "g", " ", "}">>,
      <<"v", "a", "r", "i", "a", "b", "l", "e">>,
      <<"4", "2">>,
      <<"e", "l", "s", "e">>,
      <<"w", "h", "i", "l", "e">>,
      <<"-">>, <<"*">>, <<"/">>,
      <<"f", "o", "o", "!">>,
      <<"x", "1">>,
      <<"+", "+">>,
      <<"a", "\t", "b", "\r", "\n", "\n", " ", "i", "f">> }

Inputs == StringsOver(Sigma, MaxLen) \cup SampleInputs

Messages == {<<>>, <<"x">>, <<"}">>}

Errors ==
    {SyntaxError(l, c, m) : l \in 0..MaxLine, c \in {0, 5}, m \in Messages}
        \cup {UnexpectedToken(m) : m \in Messages}

Unit == [tag |-> "Unit"]

NoCall == [called |-> FALSE, input |-> <<>>, ret |-> Unit]

----------------------------------------------------------------------------
(* The state machine *)

\* main.rs main: an input is taken and a BattleTestedParser is built from it
Init ==
    /\ input \in Inputs
    /\ error \in Errors
    /\ self_input = input
    /\ op = "new"
    /\ ret = Unit
    /\ first = NoCall

\* minimal_parser.parse(&input)
ParseCall ==
    /\ op' = "parse"
    /\ ret' = MinimalParser_parse(input)
    /\ UNCHANGED <<input, error, self_input>>

Parse == ParseCall /\ UNCHANGED first

\* battle_parser.parse(&input)
BattleParse ==
    /\ op' = "BattleTested_parse"
    /\ ret' = BattleTested_parse(self_input, input)
    /\ UNCHANGED <<input, error, self_input, first>>

\* parser.classify_token(input)
Classify ==
    /\ op' = "classify_token"
    /\ ret' = classify_token(input)
    /\ UNCHANGED <<input, error, self_input, first>>

\* minimal_parser.recover_from_error(&error)
Recover ==
    /\ op' = "recover_from_error"
    /\ ret' = recover_from_error(error)
    /\ UNCHANGED <<input, error, self_input, first>>

\* battle_parser.recover_from_error(&error)
BattleRecover ==
    /\ op' = "BattleTested_recover_from_error"
    /\ ret' = BattleTested_recover_from_error(error)
    /\ UNCHANGED <<input, error, self_input, first>>

Next == Parse \/ BattleParse \/ Classify \/ Recover \/ BattleRecover

Spec == Init /\ [][Next]_vars

----------------------------------------------------------------------------
(* A BattleTestedParser called with an argument other than its stored input *)

\* BattleTestedParser::new(s), and an argument chosen freely
InitBattle ==
    /\ self_input \in StringsOver(Sigma, MaxStored)
    /\ input \in StringsOver(Sigma, MaxArg)
    /\ error = UnexpectedToken(<<"}">>)
    /\ op = "new"
    /\ ret = Unit
    /\ first = NoCall

NextBattle == BattleParse \/ Parse

SpecBattle == InitBattle /\ [][NextBattle]_vars

----------------------------------------------------------------------------
(* Repeated calls: the harness goes through several inputs *)

DetInputs == StringsOver(DetSigma, MaxDetLen)

InitDet ==
    /\ input \in DetInputs
    /\ error = SyntaxError(1, 0, <<"x">>)
    /\ self_input = input
    /\ op = "new"
    /\ ret = Unit
    /\ first = NoCall

\* the next iteration of main's loop: another input, another BattleTestedParser
NextInput ==
    \E x \in DetInputs :
        /\ input' = x
        /\ self_input' = x
        /\ op' = "new"
        /\ ret' = Unit
        /\ UNCHANGED <<error, first>>

\* a call of minimal_parser.parse that the history variable remembers
ParseRemember ==
    /\ ParseCall
    /\ first' = [called |-> TRUE, input |-> input, ret |-> ret']

NextDet == NextInput \/ ParseRemember \/ Parse \/ BattleParse \/ Recover

SpecDet == InitDet /\ [][NextDet]_vars

----------------------------------------------------------------------------
(* What the input says, read off the input text position by position *)

\* the positions where a whitespace-delimited word starts
WordStarts(s) ==
    {p \in 1..Len(s) : s[p] \notin WhiteSpace /\ (p = 1 \/ s[p - 1] \in WhiteSpace)}

\* the number of whitespace-delimited words of s
NumWords(s) == Cardinality(WordStarts(s))

\* the i-th word start, in left-to-right order
NthStart(s, i) ==
    CHOOSE p \in WordStarts(s) : Cardinality({q \in WordStarts(s) : q < p}) = i - 1

\* the 1-based number of the line position p lies on
LineOf(s, p) == 1 + Cardinality({j \in 1..(p - 1) : s[j] = "\n"})

\* the 0-based index of the word starting at p among the words of its line
ColumnOf(s, p) ==
    Cardinality({q \in WordStarts(s) : q < p /\ LineOf(s, q) = LineOf(s, p)})

\* the last position of the word starting at p
WordLast(s, p) ==
    CHOOSE e \in p..Len(s) :
        /\ \A k \in p..e : s[k] \notin WhiteSpace
        /\ (e = Len(s) \/ s[e + 1] \in WhiteSpace)

\* the text of the word starting at p
WordText(s, p) == SubSeq(s, p, WordLast(s, p))

\* (l1, c1) before (l2, c2) in lexicographic order
LexLess(l1, c1, l2, c2) == l1 < l2 \/ (l1 = l2 /\ c1 < c2)

\* the rule predicates of the classifier
IsOperatorWord(w) == w \in {<<"+">>, <<"-">>, <<"*">>, <<"/">>}

IsKeywordWord(w) == w \in {<<"i", "f">>, <<"e", "l", "s", "e">>, <<"w", "h", "i", "l", "e">>}

AllAlphabetic(w) == \A k \in 1..Len(w) : is_alphabetic(w[k])

AllNumeric(w) == \A k \in 1..Len(w) : is_numeric(w[k])

\* how many of the rule predicates 1-4 the word satisfies
RulesMatching(w) ==
    (IF IsOperatorWord(w) THEN 1 ELSE 0) + (IF IsKeywordWord(w) THEN 1 ELSE 0)
        + (IF AllAlphabetic(w) THEN 1 ELSE 0) + (IF AllNumeric(w) THEN 1 ELSE 0)

----------------------------------------------------------------------------
(* The claims *)

\* C1: MinimalParser::parse returns Ok for every input, never Err, and its
\* result carries no ParserError.
C1_ParseAlwaysOk ==
    op = "parse" => (ret.tag = "Ok" /\ DOMAIN ret = {"tag", "tokens"})

C1_Witness ==
    /\ op = "parse"
    /\ input = <<" ", "\n", "+">>
    /\ ret.tag = "Ok"

\* C2: the number of tokens parse returns is the number of whitespace-delimited
\* words of the input; inputs without a word yield no token.
C2_TokenCount ==
    op = "parse" =>
        /\ ret.tag = "Ok"
        /\ Len(ret.tokens) = NumWords(input)
        /\ ((\A k \in 1..Len(input) : input[k] \in WhiteSpace) => ret.tokens = <<>>)

C2_Witness ==
    /\ op = "parse"
    /\ input = <<"i", "\n", "1">>
    /\ Len(ret.tokens) = 2

\* C3: every token's line is the 1-based number of the input line its word is
\* on (blank lines count), its column is the 0-based index of the word among
\* the words of that line, and the columns of one line are 0, 1, ..., k-1.
C3_LineColumn ==
    op = "parse" =>
        /\ ret.tag = "Ok"
        /\ Len(ret.tokens) = NumWords(input)
        /\ \A i \in 1..Len(ret.tokens) :
              LET p == NthStart(input, i)
              IN  /\ ret.tokens[i].line >= 1
                  /\ ret.tokens[i].line = LineOf(input, p)
                  /\ ret.tokens[i].column = ColumnOf(input, p)
        /\ \A l \in 1..(Len(input) + 1) :
              LET onLine == {i \in 1..Len(ret.tokens) : ret.tokens[i].line = l}
              IN  {ret.tokens[i].column : i \in onLine} = 0..(Cardinality(onLine) - 1)

C3_Witness ==
    /\ op = "parse"
    /\ input = <<"\n", "\n", "1">>
    /\ Len(ret.tokens) = 1
    /\ ret.tokens[1].line = 3
    /\ ret.tokens[1].column = 0

\* C4: the tokens are in scan order, (line, column) strictly increasing in
\* lexicographic order, and each token's value is the text of the word at its
\* (line, column) in the input.
C4_ScanOrder ==
    op = "parse" =>
        /\ ret.tag = "Ok"
        /\ \A i, j \in 1..Len(ret.tokens) :
              i < j => LexLess(ret.tokens[i].line, ret.tokens[i].column,
                               ret.tokens[j].line, ret.tokens[j].column)
        /\ \A i \in 1..Len(ret.tokens) :
              \E p \in WordStarts(input) :
                  /\ LineOf(input, p) = ret.tokens[i].line
                  /\ ColumnOf(input, p) = ret.tokens[i].column
                  /\ WordText(input, p) = ret.tokens[i].value

C4_Witness ==
    /\ op = "parse"
    /\ input = <<"a", "\t", "b", "\r", "\n", "\n", " ", "i", "f">>
    /\ Len(ret.tokens) = 3
    /\ ret.tokens[2].value = <<"b">>
    /\ ret.tokens[3].line = 3

\* C5: for a non-empty word classify_token returns the kind of the first rule
\* that matches, in the order operator, keyword, all alphabetic, all numeric,
\* otherwise Punctuation; and every token parse emits has the kind
\* classify_token gives its value.
C5_FirstMatchingRule ==
    /\ (op = "classify_token" /\ input # <<>>) =>
          /\ IsOperatorWord(input) => ret = "Operator"
          /\ (~IsOperatorWord(input) /\ IsKeywordWord(input)) => ret = "Keyword"
          /\ (~IsOperatorWord(input) /\ ~IsKeywordWord(input) /\ AllAlphabetic(input))
                => ret = "Identifier"
          /\ (~IsOperatorWord(input) /\ ~IsKeywordWord(input) /\ ~AllAlphabetic(input)
                /\ AllNumeric(input)) => ret = "Literal"
          /\ (~IsOperatorWord(input) /\ ~IsKeywordWord(input) /\ ~AllAlphabetic(input)
                /\ ~AllNumeric(input)) => ret = "Punctuation"
          /\ (input = <<"f", "o", "o", "!">> \/ input = <<"x", "1">> \/ input = <<"+", "+">>)
                => ret = "Punctuation"
    /\ op = "parse" =>
          \A i \in 1..Len(ret.tokens) :
              ret.tokens[i].kind = classify_token(ret.tokens[i].value)

C5_Witness ==
    /\ op = "classify_token"
    /\ input = <<LetterNumber, LetterNumber>>
    /\ ret = "Identifier"

\* C6: recover_from_error never returns None and never Replace: a SyntaxError
\* gives Some(Synchronize(line)) with the error's line, whatever its column
\* and message, and an UnexpectedToken gives Some(Skip).
C6_RecoveryAdvice ==
    op \in {"recover_from_error", "BattleTested_recover_from_error"} =>
        /\ ret.some
        /\ ret.action # "Replace"
        /\ error.variant = "SyntaxError" => ret = SomeSynchronize(error.line)
        /\ error.variant = "UnexpectedToken" => ret = SomeSkip

C6_Witness ==
    /\ op = "recover_from_error"
    /\ error = SyntaxError(3, 5, <<"x">>)
    /\ ret = SomeSynchronize(3)

C8_AtMostOneRule ==
    op = "classify_token" => RulesMatching(input) <= 1

\* C8 as amended: an operator word satisfies no other rule predicate and a
\* keyword is not all numeric, but every keyword is all alphabetic, and it is
\* the order of rules 2 and 3 that makes it a Keyword.
C8_OperatorsApartKeywordsByOrder ==
    op = "classify_token" =>
        /\ IsOperatorWord(input) =>
              (~IsKeywordWord(input) /\ ~AllAlphabetic(input) /\ ~AllNumeric(input))
        /\ IsKeywordWord(input) =>
              (AllAlphabetic(input) /\ ~AllNumeric(input) /\ ret = "Keyword")

C8_Witness ==
    /\ op = "classify_token"
    /\ input = <<"i", "f">>
    /\ RulesMatching(input) = 2
    /\ ret = "Keyword"

\* C9: BattleTestedParser::parse returns the tokens of its stored input, the
\* ones MinimalParser::parse returns for it, whatever its argument; it agrees
\* with MinimalParser::parse of the argument only when both tokenize alike.
C9_IgnoresArgument ==
    op = "BattleTested_parse" =>
        /\ ret = MinimalParser_parse(self_input)
        /\ (ret = MinimalParser_parse(input)
              <=> MinimalParser_parse(input) = MinimalParser_parse(self_input))

C9_Witness ==
    /\ op = "BattleTested_parse"
    /\ self_input = <<"i", "f">>
    /\ input = <<"1">>
    /\ ret # MinimalParser_parse(input)
    /\ ret.tokens[1].kind = "Keyword"

\* C10: classify_token of the empty string is Identifier, and parse emits no
\* token with an empty value.
C10_EmptyWord ==
    /\ (op = "classify_token" /\ input = <<>>) => ret = "Identifier"
    /\ op = "parse" => \A i \in 1..Len(ret.tokens) : ret.tokens[i].value # <<>>

C10_Witness ==
    /\ op = "classify_token"
    /\ input = <<>>
    /\ ret = "Identifier"

====
